---- MODULE Spec2Model ----
(***************************************************************************)
(* The sharding codec of zarr (src/src/zarr/codecs/sharding.py): the shard *)
(* index, the shard proxy and builder, and the four codec operations       *)
(* encode, decode, decode_partial and encode_partial, run against one      *)
(* shard key of a byte store.                                              *)
(*                                                                         *)
(* Bytes are sequences of 0..255.  A uint64 is four 16-bit limbs, least    *)
(* significant first, so that the arithmetic of the index wraps at 2^64 as *)
(* numpy's does.  A Python int taken from a uint64 is kept exactly below   *)
(* 2^16 and as the one value 2^16 above it: every buffer of the model is   *)
(* shorter than that, and the ints are only used to slice buffers.         *)
(* An optional value (Python's None) is a sequence of length 0 or 1.       *)
(***************************************************************************)
EXTENDS Integers, Sequences, FiniteSets, TLC

\* ------------------------------------------------------------------ bounds
\* Array elements are the uint8 values 0..MaxVal.
MaxVal == 1

\* A history holds at most MaxWrites calls that write the key.
MaxWrites == 2

\* Schemes are strings of at most MaxSchemeLen characters, and a registry
\* is given at most MaxSchemes of them.
MaxSchemeLen == 3

MaxSchemes == 2

\* The largest async.concurrency the executor is run with.
MaxLimit == 2

\* Arrays and inner chunk shapes handed to validate have 1..MaxNdim
\* dimensions and chunk extents 1..MaxExtent.
MaxNdim == 2

MaxExtent == 3

\* ------------------------------------------------------- shapes and arrays
\* The shape of one shard (shard_spec.shape); the inner chunk shapes the
\* codec is configured with all divide it.
ShardShape == <<2, 2>>

ChunkShapes == {<<1, 1>>, <<1, 2>>, <<2, 1>>, <<2, 2>>}

IndexLocations == {"start", "end"}

Vals == 0..MaxVal

None == <<>>

Some(x) == <<x>>

Min(a, b) == IF a < b THEN a ELSE b

Max(a, b) == IF a > b THEN a ELSE b

product(shape) == shape[1] * shape[2]

\* The coordinates of an array (or a chunk grid) of the given shape.
Coords(shape) == (0..(shape[1] - 1)) \X (0..(shape[2] - 1))

Arrays(shape, vals) == [Coords(shape) -> vals]

\* np.empty(shape); fill(v)
Full(shape, v) == [c \in Coords(shape) |-> v]

\* The arrays of one value throughout.
Blocks(shape, vals) == {Full(shape, v) : v \in vals}

\* A slice selection is one <<start, stop>> per dimension, start < stop.
SelShape(sel) == <<sel[1][2] - sel[1][1], sel[2][2] - sel[2][1]>>

\* a[sel]
Take(a, sel) == [c \in Coords(SelShape(sel)) |-> a[<<c[1] + sel[1][1], c[2] + sel[2][1]>>]]

InSel(c, sel) == /\ sel[1][1] <= c[1] /\ c[1] < sel[1][2]
                 /\ sel[2][1] <= c[2] /\ c[2] < sel[2][2]

\* a[sel] = v, v an array of the selection's shape
Put(a, sel, v) ==
    [c \in DOMAIN a |-> IF InSel(c, sel)
                          THEN v[<<c[1] - sel[1][1], c[2] - sel[2][1]>>]
                          ELSE a[c]]

\* a[sel] = x, x a scalar
PutScalar(a, sel, x) == [c \in DOMAIN a |-> IF InSel(c, sel) THEN x ELSE a[c]]

\* np.array_equiv(a, x)
array_equiv(a, x) == \A c \in DOMAIN a : a[c] = x

Slices(n) == {s \in (0..(n - 1)) \X (1..n) : s[1] < s[2]}

Selections(shape) == Slices(shape[1]) \X Slices(shape[2])

FullSelection(shape) == <<<<0, shape[1]>>, <<0, shape[2]>>>>

\* ------------------------------------------------------------ indexing
\* c_order_iter: the coordinates of a grid, last dimension fastest.
c_order_iter(shape) ==
    [k \in 1..product(shape) |-> <<(k - 1) \div shape[2], (k - 1) % shape[2]>>]

\* The number of bits of a grid extent: ceil(log2(n)).
CoordBits(n) == IF n <= 1 THEN 0 ELSE IF n <= 2 THEN 1 ELSE 2

\* decode_morton for two dimensions: the bits of z are dealt to the
\* dimensions in turn, dimension 0 first, skipping a dimension whose extent
\* needs no further bit.
decode_morton(z, shape) ==
    LET b0 == CoordBits(shape[1])
        b1 == CoordBits(shape[2])
    IN  IF b0 = 0 THEN <<0, z>>
        ELSE IF b1 = 0 THEN <<z, 0>>
        ELSE <<z % 2, (z \div 2) % 2>>

morton_order_iter(shape) == [k \in 1..product(shape) |-> decode_morton(k - 1, shape)]

\* The chunks one dimension's slice touches, with the slice inside the chunk
\* and the slice of the output it fills.
DimProjections(slice, c) ==
    LET first == slice[1] \div c
        last == (slice[2] - 1) \div c
    IN  [k \in 1..(last - first + 1) |->
            LET ch == first + k - 1
                lo == Max(slice[1], ch * c)
                hi == Min(slice[2], (ch + 1) * c)
            IN  [chunk |-> ch,
                 chunk_sel |-> <<lo - ch * c, hi - ch * c>>,
                 out_sel |-> <<lo - slice[1], hi - slice[1]>>]]

\* BasicIndexer(selection, shape, chunk_shape): the (chunk_coords,
\* chunk_selection, out_selection) triples, chunk coordinates in row-major
\* order.
BasicIndexer(selection, chunk_shape) ==
    LET d0 == DimProjections(selection[1], chunk_shape[1])
        d1 == DimProjections(selection[2], chunk_shape[2])
        n1 == Len(d1)
    IN  [k \in 1..(Len(d0) * n1) |->
            LET p == d0[((k - 1) \div n1) + 1]
                q == d1[((k - 1) % n1) + 1]
            IN  [chunk_coords |-> <<p.chunk, q.chunk>>,
                 chunk_selection |-> <<p.chunk_sel, q.chunk_sel>>,
                 out_selection |-> <<p.out_sel, q.out_sel>>]]

is_total_slice(chunk_selection, chunk_shape) ==
    /\ chunk_selection[1] = <<0, chunk_shape[1]>>
    /\ chunk_selection[2] = <<0, chunk_shape[2]>>

\* --------------------------------------------------------------- uint64
Limb == 2 ^ 16

MAX_UINT_64 == <<Limb - 1, Limb - 1, Limb - 1, Limb - 1>>

\* A Python int (small) stored into a uint64 array.
ToU64(n) == <<n % Limb, (n \div Limb) % Limb, 0, 0>>

\* uint64 + n with numpy's wrap-around at 2^64.
AddU64(u, n) ==
    LET s0 == u[1] + n
        s1 == u[2] + (s0 \div Limb)
        s2 == u[3] + (s1 \div Limb)
        s3 == u[4] + (s2 \div Limb)
    IN  <<s0 % Limb, s1 % Limb, s2 % Limb, s3 % Limb>>

\* int(u), exact below 2^16.
ToInt(u) == IF u[2] = 0 /\ u[3] = 0 /\ u[4] = 0 THEN u[1] ELSE Limb

\* Byte i (0..7) of the eight little-endian bytes of a uint64, and the
\* uint64 read back from eight bytes of b starting at index at.
U64Byte(u, i) ==
    IF i % 2 = 0 THEN u[(i \div 2) + 1] % 256 ELSE u[(i \div 2) + 1] \div 256

FromLE8(b, at) == <<b[at] + 256 * b[at + 1], b[at + 2] + 256 * b[at + 3],
                    b[at + 4] + 256 * b[at + 5], b[at + 6] + 256 * b[at + 7]>>

\* ---------------------------------------------------------------- bytes
\* buf[a:b] for ints 0 <= a, 0 <= b: Python clamps both to the length.
PySlice(buf, a, b) == SubSeq(buf, a + 1, Min(b, Len(buf)))

\* buf[:n]
PyHead(buf, n) == SubSeq(buf, 1, Min(n, Len(buf)))

\* buf[-n:], n > 0
PyTail(buf, n) == SubSeq(buf, Max(1, Len(buf) - n + 1), Len(buf))

\* A position-weighted sum of the bytes b[lo..hi].
RECURSIVE Checksum(_, _, _)
Checksum(b, lo, hi) ==
    IF lo > hi THEN 0
    ELSE IF lo = hi THEN (lo * (b[lo] + 1)) % 16777213
    ELSE (Checksum(b, lo, (lo + hi) \div 2)
          + Checksum(b, ((lo + hi) \div 2) + 1, hi)) % 16777213

CrcBytes(h) == <<h % 256, (h \div 256) % 256, (h \div 65536) % 256, (h \div 7) % 256>>

\* The four-byte trailer the crc32c codec appends: a checksum of the bytes
\* before it.
Crc32c(b) == CrcBytes(Checksum(b, 1, Len(b)) + Len(b))

\* Crc32cCodec.encode and decode: decode strips the trailer and raises
\* (ok = FALSE) unless it is the checksum of the rest.
CrcEncode(b) == b \o Crc32c(b)

CrcDecode(b) ==
    [ok |-> Len(b) >= 4 /\ Crc32c(SubSeq(b, 1, Len(b) - 4)) = SubSeq(b, Len(b) - 3, Len(b)),
     val |-> SubSeq(b, 1, Len(b) - 4)]

\* ------------------------------------------------- codec pipelines (bytes)
\* The inner pipeline [bytes] on a uint8 chunk: the elements in row-major
\* order, one byte each.
InnerEncode(chunk_array, chunk_shape) ==
    [k \in 1..product(chunk_shape) |->
        chunk_array[<<(k - 1) \div chunk_shape[2], (k - 1) % chunk_shape[2]>>]]

\* Its decode: np.frombuffer, then a reshape that raises unless the byte
\* count is that of the chunk shape.
InnerDecode(chunk_bytes, chunk_shape) ==
    IF Len(chunk_bytes) /= product(chunk_shape)
      THEN [ok |-> FALSE, val |-> Full(chunk_shape, 0)]
      ELSE [ok |-> TRUE,
            val |-> [c \in Coords(chunk_shape) |->
                        chunk_bytes[c[1] * chunk_shape[2] + c[2] + 1]]]

\* index_codecs.compute_encoded_size(16 * n): the default index pipeline
\* [bytes, crc32c] adds its four-byte trailer.
_shard_index_size(chunks_per_shard) == 16 * product(chunks_per_shard) + 4

\* -------------------------------------------------------------- _ShardIndex
EmptyEntry == <<MAX_UINT_64, MAX_UINT_64>>

IndexCreateEmpty(chunks_per_shard) == [c \in Coords(chunks_per_shard) |-> EmptyEntry]

_localize_chunk(chunk_coords, chunks_per_shard) ==
    <<chunk_coords[1] % chunks_per_shard[1], chunk_coords[2] % chunks_per_shard[2]>>

is_all_empty(index) == \A c \in DOMAIN index : index[c] = EmptyEntry

\* The (start, end) pair of an entry, as Python ints.
EntrySlice(e) == <<ToInt(e[1]), ToInt(e[1]) + ToInt(e[2])>>

\* None, or the (start, end) pair.
get_chunk_slice(index, chunk_coords, chunks_per_shard) ==
    IF index[_localize_chunk(chunk_coords, chunks_per_shard)] = EmptyEntry
      THEN None
      ELSE Some(EntrySlice(index[_localize_chunk(chunk_coords, chunks_per_shard)]))

\* chunk_slice is None or Some(<<start, stop>>).
set_chunk_slice(index, chunk_coords, chunks_per_shard, chunk_slice) ==
    [index EXCEPT ![_localize_chunk(chunk_coords, chunks_per_shard)] =
        IF chunk_slice = None THEN EmptyEntry
        ELSE <<ToU64(chunk_slice[1][1]), ToU64(chunk_slice[1][2] - chunk_slice[1][1])>>]

\* What `for offset, length in self.offsets_and_lengths` walks: the array
\* along its first axis, one item per row of the grid, an item holding the
\* entries of that row.
AxisItems(index, chunks_per_shard) ==
    [i \in 1..chunks_per_shard[1] |->
        [j \in 1..chunks_per_shard[2] |-> index[<<i - 1, j - 1>>]]]

\* An item unpacks into (offset, length) when it has two parts.
Unpacks(item) == Len(item) = 2

\* `offset != MAX_UINT_64`: one truth value per number the offset holds.
TruthValues(offset) == [k \in 1..Len(offset) |-> offset[k] /= MAX_UINT_64]

\* The comprehension of is_dense gets past an item: it unpacks, and the
\* `if` has a single truth value to take.
ItemPasses(item) == Unpacks(item) /\ Len(TruthValues(item[1])) = 1

\* The rest of is_dense, over the entries the comprehension kept: offsets
\* unique, every offset a multiple of the length, every length the length.
DenseEntries(index, chunk_byte_length) ==
    /\ \A c1, c2 \in DOMAIN index :
         (c1 /= c2 /\ index[c1][1] /= MAX_UINT_64 /\ index[c2][1] /= MAX_UINT_64)
            => index[c1][1] /= index[c2][1]
    /\ \A c \in DOMAIN index :
         index[c][1] /= MAX_UINT_64
            => /\ ToInt(index[c][1]) % chunk_byte_length = 0
               /\ index[c][2] = ToU64(chunk_byte_length)

\* is_dense: [ok, val]; ok is FALSE when the call raises ValueError, which
\* it does on the first item that does not pass.
is_dense(index, chunks_per_shard, chunk_byte_length) ==
    IF \E i \in 1..chunks_per_shard[1] :
           ~ItemPasses(AxisItems(index, chunks_per_shard)[i])
      THEN [ok |-> FALSE, val |-> FALSE]
      ELSE [ok |-> TRUE, val |-> DenseEntries(index, chunk_byte_length)]

\* The index through [bytes]: offset and length of every entry, entries in
\* row-major order, each number as eight little-endian bytes.
IndexToBytes(index, chunks_per_shard) ==
    [k \in 1..(16 * product(chunks_per_shard)) |->
        U64Byte(index[<<((k - 1) \div 16) \div chunks_per_shard[2],
                        ((k - 1) \div 16) % chunks_per_shard[2]>>][(((k - 1) % 16) \div 8) + 1],
                (k - 1) % 8)]

\* The uint64s read back by [bytes]; the reshape raises unless there are
\* 2 * prod(chunks_per_shard) of them.
IndexFromBytes(c, chunks_per_shard) ==
    IF c.ok /\ Len(c.val) = 16 * product(chunks_per_shard)
      THEN [ok |-> TRUE,
            index |-> [p \in Coords(chunks_per_shard) |->
                <<FromLE8(c.val, 16 * (p[1] * chunks_per_shard[2] + p[2]) + 1),
                  FromLE8(c.val, 16 * (p[1] * chunks_per_shard[2] + p[2]) + 9)>>]]
      ELSE [ok |-> FALSE, index |-> IndexCreateEmpty(chunks_per_shard)]

_encode_shard_index(index, chunks_per_shard) ==
    CrcEncode(IndexToBytes(index, chunks_per_shard))

\* [ok, index]: ok is FALSE when the index pipeline raises.
_decode_shard_index(index_bytes, chunks_per_shard) ==
    IndexFromBytes(CrcDecode(index_bytes), chunks_per_shard)

\* ------------------------------------------------- _ShardProxy, _ShardBuilder
\* Both are a byte buffer with an index.
MakeProxy(buf, d) == [ok |-> d.ok, proxy |-> [buf |-> buf, index |-> d.index]]

ProxyFromBytes(buf, index_location, chunks_per_shard) ==
    MakeProxy(buf,
              _decode_shard_index(
                  IF index_location = "start"
                    THEN PyHead(buf, _shard_index_size(chunks_per_shard))
                    ELSE PyTail(buf, _shard_index_size(chunks_per_shard)),
                  chunks_per_shard))

ProxyCreateEmpty(chunks_per_shard) ==
    [buf |-> <<>>, index |-> IndexCreateEmpty(chunks_per_shard)]

\* _ShardProxy.__getitem__ (and Mapping.get over it): None or the bytes.
ProxyGet(proxy, chunk_coords, chunks_per_shard) ==
    IF proxy.index[_localize_chunk(chunk_coords, chunks_per_shard)] = EmptyEntry
      THEN None
      ELSE Some(PySlice(proxy.buf,
                        get_chunk_slice(proxy.index, chunk_coords, chunks_per_shard)[1][1],
                        get_chunk_slice(proxy.index, chunk_coords, chunks_per_shard)[1][2]))

\* A mapping's get over every coordinate of the grid.
ProxyDict(proxy, chunks_per_shard) ==
    [c \in Coords(chunks_per_shard) |-> ProxyGet(proxy, c, chunks_per_shard)]

BuilderCreateEmpty(chunks_per_shard) ==
    [buf |-> <<>>, index |-> IndexCreateEmpty(chunks_per_shard)]

append(builder, chunk_coords, value, chunks_per_shard) ==
    [buf |-> builder.buf \o value,
     index |-> set_chunk_slice(builder.index, chunk_coords, chunks_per_shard,
                               Some(<<Len(builder.buf), Len(builder.buf) + Len(value)>>))]

\* offsets_and_lengths[..., 0] += n: the offset column of every entry.
ShiftOffsets(index, n) == [c \in DOMAIN index |-> <<AddU64(index[c][1], n), index[c][2]>>]

\* The index finalize emits: as built, or with the offsets moved past the
\* index when the index goes first.
FinalIndex(index, index_location, chunks_per_shard) ==
    IF index_location = "start"
      THEN ShiftOffsets(index, Len(_encode_shard_index(index, chunks_per_shard)))
      ELSE index

finalize(builder, index_location, chunks_per_shard) ==
    IF index_location = "start"
      THEN _encode_shard_index(FinalIndex(builder.index, index_location, chunks_per_shard),
                               chunks_per_shard) \o builder.buf
      ELSE builder.buf \o _encode_shard_index(builder.index, chunks_per_shard)

\* merge_with_morton_order over shard_dicts = (new, old): new and old are
\* the two mappings' get, coordinates -> None or bytes.
RECURSIVE MergeFrom(_, _, _, _, _, _)
MergeFrom(obj, k, chunks_per_shard, tombstones, new, old) ==
    IF k > product(chunks_per_shard) THEN obj
    ELSE MergeFrom(
           IF decode_morton(k - 1, chunks_per_shard) \in tombstones THEN obj
           ELSE IF new[decode_morton(k - 1, chunks_per_shard)] /= None
             THEN append(obj, decode_morton(k - 1, chunks_per_shard),
                         new[decode_morton(k - 1, chunks_per_shard)][1], chunks_per_shard)
           ELSE IF old[decode_morton(k - 1, chunks_per_shard)] /= None
             THEN append(obj, decode_morton(k - 1, chunks_per_shard),
                         old[decode_morton(k - 1, chunks_per_shard)][1], chunks_per_shard)
           ELSE obj,
           k + 1, chunks_per_shard, tombstones, new, old)

\* A variant of the merge that does not look at the tombstones.
MergeKeepsTombstoned(chunks_per_shard, tombstones, new, old) ==
    MergeFrom(BuilderCreateEmpty(chunks_per_shard), 1, chunks_per_shard,
              {}, new, old)

merge_with_morton_order(chunks_per_shard, tombstones, new, old) ==
    MergeFrom(BuilderCreateEmpty(chunks_per_shard), 1, chunks_per_shard,
              tombstones, new, old)

\* ------------------------------------------------------------------ store
\* One key of the store: None (absent) or Some(bytes).
\* get(): the whole object.
StoreGet(st) == st

\* get((start, end)) with 0 <= start <= end: seek to start, read end - start.
StoreGetRange(st, start, end) ==
    IF st = None THEN None ELSE Some(PySlice(st[1], start, end))

\* get((-n, None)): seek to max(0, size - n), read to the end.
StoreGetTail(st, n) == IF st = None THEN None ELSE Some(PyTail(st[1], n))

\* The store after the requests of a log, in order.
RECURSIVE ApplyLog(_, _, _)
ApplyLog(st, log, k) ==
    IF k > Len(log) THEN st
    ELSE ApplyLog(IF log[k].op = "set" THEN Some(log[k].value)
                  ELSE IF log[k].op = "delete" THEN None
                  ELSE st,
                  log, k + 1)

GetRequest == [op |-> "get", value |-> <<>>]

DeleteRequest == [op |-> "delete", value |-> <<>>]

SetRequest(value) == [op |-> "set", value |-> value]

\* ------------------------------------------------------------ concurrency
\* The orders in which n concurrent tasks can complete.
OrdersOf ==
    [n \in 1..product(ShardShape) |->
        {o \in [1..n -> 1..n] : \A i, j \in 1..n : o[i] = o[j] => i = j}]

Orders(n) == OrdersOf[n]

\* concurrent_map gathers: whatever the completion order, the k-th result
\* is that of the k-th item.  done[i] is the i-th completion: the position
\* of its item and its result.
Gather(done) ==
    [k \in 1..Len(done) |-> done[CHOOSE i \in 1..Len(done) : done[i].pos = k].res]

\* ----------------------------------------------------------- ShardingCodec
\* A codec is [index_location, chunk_shape]; fill is shard_spec.fill_value.
_get_chunks_per_shard(codec) ==
    <<ShardShape[1] \div codec.chunk_shape[1], ShardShape[2] \div codec.chunk_shape[2]>>

\* The end of a _write_chunk: None for a chunk equal to fill_value
\* everywhere, else its encoding.
ChunkResult(chunk_coords, chunk_array, codec, fill) ==
    [ok |-> TRUE,
     chunk_coords |-> chunk_coords,
     chunk_bytes |-> IF ~array_equiv(chunk_array, fill)
                       THEN Some(InnerEncode(chunk_array, codec.chunk_shape))
                       ELSE None]

\* encode._write_chunk
EncodeWriteChunk(shard_array, task, codec, fill) ==
    ChunkResult(task.chunk_coords,
                IF is_total_slice(task.chunk_selection, codec.chunk_shape)
                  THEN Take(shard_array, task.out_selection)
                  ELSE Put(Full(codec.chunk_shape, fill), task.chunk_selection,
                           Take(shard_array, task.out_selection)),
                codec, fill)

\* The loop that appends the non-None results, in list order.
RECURSIVE AppendAll(_, _, _, _)
AppendAll(builder, encoded_chunks, k, chunks_per_shard) ==
    IF k > Len(encoded_chunks) THEN builder
    ELSE AppendAll(IF encoded_chunks[k].chunk_bytes /= None
                     THEN append(builder, encoded_chunks[k].chunk_coords,
                                 encoded_chunks[k].chunk_bytes[1], chunks_per_shard)
                     ELSE builder,
                   encoded_chunks, k + 1, chunks_per_shard)

\* The completions of encode's tasks over the indexer's items, in the
\* order given.
EncodeCompletions(shard_array, indexer, codec, fill, order) ==
    [i \in 1..Len(indexer) |->
        [pos |-> order[i],
         res |-> EncodeWriteChunk(shard_array, indexer[order[i]], codec, fill)]]

\* encoded_chunks: what encode's concurrent_map returns.
EncodeChunks(shard_array, codec, fill, order) ==
    Gather(EncodeCompletions(shard_array,
                             BasicIndexer(FullSelection(ShardShape), codec.chunk_shape),
                             codec, fill, order))

\* The builder encode fills from encoded_chunks.
EncodeBuilder(encoded_chunks, codec) ==
    AppendAll(BuilderCreateEmpty(_get_chunks_per_shard(codec)), encoded_chunks, 1,
              _get_chunks_per_shard(codec))

\* What encode returns for the builder: None or the shard's bytes.
EncodeReturn(encoded_chunks, codec) ==
    IF Len(encoded_chunks) = 0 THEN None
    ELSE Some(finalize(EncodeBuilder(encoded_chunks, codec), codec.index_location,
                       _get_chunks_per_shard(codec)))

encode(shard_array, codec, fill, order) ==
    EncodeReturn(EncodeChunks(shard_array, codec, fill, order), codec)

\* The write of a decoded chunk (d = [ok, val]) into the output.
PutDecoded(d, task, out) ==
    IF d.ok
      THEN [ok |-> TRUE,
            out |-> Put(out, task.out_selection, Take(d.val, task.chunk_selection))]
      ELSE [ok |-> FALSE, out |-> out]

\* A variant of _read_chunk whose write for a missing chunk is not kept to
\* the task's region: it sets the whole output to fill_value.
ReadChunkFillsAll(shard_dict, task, codec, fill, out) ==
    IF shard_dict[task.chunk_coords] /= None
      THEN PutDecoded(InnerDecode(shard_dict[task.chunk_coords][1], codec.chunk_shape),
                      task, out)
      ELSE [ok |-> TRUE, out |-> [c \in DOMAIN out |-> fill]]

\* _read_chunk on the output so far: the output after it, or a raise of
\* the inner decode.
_read_chunk(shard_dict, task, codec, fill, out) ==
    IF shard_dict[task.chunk_coords] /= None
      THEN PutDecoded(InnerDecode(shard_dict[task.chunk_coords][1], codec.chunk_shape),
                      task, out)
      ELSE [ok |-> TRUE, out |-> PutScalar(out, task.out_selection, fill)]

\* The tasks of one concurrent_map over _read_chunk, run to completion one
\* after the other in the given order; the first raise ends the call.
RECURSIVE ReadChunks(_, _, _, _, _, _, _)
RECURSIVE ReadNext(_, _, _, _, _, _, _)
ReadChunks(out, i, order, tasks, shard_dict, codec, fill) ==
    IF i > Len(tasks) THEN [ok |-> TRUE, out |-> out]
    ELSE ReadNext(_read_chunk(shard_dict, tasks[order[i]], codec, fill, out),
                  i, order, tasks, shard_dict, codec, fill)

ReadNext(r, i, order, tasks, shard_dict, codec, fill) ==
    IF r.ok THEN ReadChunks(r.out, i + 1, order, tasks, shard_dict, codec, fill)
    ELSE r

\* decode once the proxy is parsed (shard_dict = [ok, proxy]).
DecodeProxy(shard_dict, codec, fill, order) ==
    IF ~shard_dict.ok THEN [ok |-> FALSE, out |-> Full(ShardShape, 0)]
    ELSE IF is_all_empty(shard_dict.proxy.index)
      THEN [ok |-> TRUE, out |-> Full(ShardShape, fill)]
    ELSE ReadChunks(Full(ShardShape, 0), 1, order,
                    BasicIndexer(FullSelection(ShardShape), codec.chunk_shape),
                    ProxyDict(shard_dict.proxy, _get_chunks_per_shard(codec)),
                    codec, fill)

\* decode: [ok, out]; ok is FALSE when the call raises.
decode(shard_bytes, codec, fill, order) ==
    DecodeProxy(ProxyFromBytes(shard_bytes, codec.index_location,
                               _get_chunks_per_shard(codec)),
                codec, fill, order)

_is_total_shard(all_chunk_coords, chunks_per_shard) ==
    /\ Cardinality(all_chunk_coords) = product(chunks_per_shard)
    /\ \A c \in Coords(chunks_per_shard) : c \in all_chunk_coords

\* [ok, proxy]: proxy is None or Some(proxy); None when the object is
\* absent or has no bytes, ok FALSE when from_bytes raises.
WrapProxy(p) == [ok |-> p.ok, proxy |-> Some(p.proxy)]

_load_full_shard_maybe(st, codec) ==
    IF StoreGet(st) /= None /\ StoreGet(st)[1] /= <<>>
      THEN WrapProxy(ProxyFromBytes(StoreGet(st)[1], codec.index_location,
                                    _get_chunks_per_shard(codec)))
      ELSE [ok |-> TRUE, proxy |-> None]

\* The byte ranges asked of the store: none for the whole object, (0, n)
\* for the first n bytes, (-n, None) for the last n, (start, end).
WholeObject == <<>>

IndexRange(codec) ==
    IF codec.index_location = "start"
      THEN <<0, _shard_index_size(_get_chunks_per_shard(codec))>>
      ELSE <<0 - _shard_index_size(_get_chunks_per_shard(codec))>>

\* The range _load_shard_index_maybe asks of the store, as the store
\* answers it: None when the object is absent.
IndexBytesMaybe(st, codec) ==
    IF codec.index_location = "start"
      THEN StoreGetRange(st, 0, _shard_index_size(_get_chunks_per_shard(codec)))
      ELSE StoreGetTail(st, _shard_index_size(_get_chunks_per_shard(codec)))

WrapIndex(d) == [ok |-> d.ok, index |-> Some(d.index)]

\* A variant of the index load that decodes whatever the store answered,
\* no bytes for an absent key.
LoadShardIndexUnguarded(st, codec) ==
    WrapIndex(_decode_shard_index(IF IndexBytesMaybe(st, codec) /= None
                                    THEN IndexBytesMaybe(st, codec)[1]
                                    ELSE <<>>,
                                  _get_chunks_per_shard(codec)))

\* [ok, index]: index is None or Some(index).
_load_shard_index_maybe(st, codec) ==
    IF IndexBytesMaybe(st, codec) /= None
      THEN WrapIndex(_decode_shard_index(IndexBytesMaybe(st, codec)[1],
                                         _get_chunks_per_shard(codec)))
      ELSE [ok |-> TRUE, index |-> None]

\* The chunk coordinates an indexer touches.
AllChunkCoords(indexed_chunks) ==
    {indexed_chunks[k].chunk_coords : k \in 1..Len(indexed_chunks)}

\* What one ranged get of decode_partial puts into shard_dict: nothing for
\* no bytes.
RangedChunk(chunk_bytes) ==
    IF chunk_bytes /= None /\ chunk_bytes[1] /= <<>> THEN chunk_bytes ELSE None

\* decode_partial's shard_dict when only some chunks are wanted: one ranged
\* get per wanted chunk the index maps.
PartialDict(st, index, all_chunk_coords, chunks_per_shard) ==
    [c \in Coords(chunks_per_shard) |->
        IF c \in all_chunk_coords /\ index[c] /= EmptyEntry
          THEN RangedChunk(StoreGetRange(st, EntrySlice(index[c])[1],
                                         EntrySlice(index[c])[2]))
          ELSE None]

\* The byte ranges those gets ask for.
PartialGets(index, all_chunk_coords) ==
    {EntrySlice(index[c]) : c \in {d \in all_chunk_coords : index[d] /= EmptyEntry}}

\* The return of decode_partial: None, the array, or a raise.
PartialReturn(r, gets) ==
    [kind |-> IF r.ok THEN "array" ELSE "error", out |-> r.out, gets |-> gets]

PartialNone(gets) == [kind |-> "none", out |-> <<>>, gets |-> gets]

PartialError(gets) == [kind |-> "error", out |-> <<>>, gets |-> gets]

\* decode_partial when every chunk of the shard is wanted.
DecodePartialTotal(l, selection, indexed_chunks, codec, fill, order) ==
    IF ~l.ok THEN PartialError({WholeObject})
    ELSE IF l.proxy = None THEN PartialNone({WholeObject})
    ELSE PartialReturn(
           ReadChunks(Full(SelShape(selection), 0), 1, order, indexed_chunks,
                      ProxyDict(l.proxy[1], _get_chunks_per_shard(codec)), codec, fill),
           {WholeObject})

\* decode_partial when only some chunks are wanted.
DecodePartialSome(st, l, selection, indexed_chunks, codec, fill, order) ==
    IF ~l.ok THEN PartialError({IndexRange(codec)})
    ELSE IF l.index = None THEN PartialNone({IndexRange(codec)})
    ELSE PartialReturn(
           ReadChunks(Full(SelShape(selection), 0), 1, order, indexed_chunks,
                      PartialDict(st, l.index[1], AllChunkCoords(indexed_chunks),
                                  _get_chunks_per_shard(codec)),
                      codec, fill),
           {IndexRange(codec)} \cup PartialGets(l.index[1], AllChunkCoords(indexed_chunks)))

\* A variant of decode_partial that reads the entire shard whatever the
\* selection.
DecodePartialWholeShard(st, selection, indexed_chunks, codec, fill, order) ==
    DecodePartialTotal(_load_full_shard_maybe(st, codec), selection,
                       indexed_chunks, codec, fill, order)

DecodePartialOver(st, selection, indexed_chunks, codec, fill, order) ==
    IF _is_total_shard(AllChunkCoords(indexed_chunks), _get_chunks_per_shard(codec))
      THEN DecodePartialTotal(_load_full_shard_maybe(st, codec), selection,
                              indexed_chunks, codec, fill, order)
      ELSE DecodePartialSome(st, _load_shard_index_maybe(st, codec), selection,
                             indexed_chunks, codec, fill, order)

\* decode_partial: [kind, out, gets]; gets are the byte ranges it asked of
\* the store.
decode_partial(st, selection, codec, fill, order) ==
    DecodePartialOver(st, selection, BasicIndexer(selection, codec.chunk_shape),
                      codec, fill, order)

\* encode_partial._write_chunk, from the old chunk decoded (d = [ok, val]).
PartialMerged(d, shard_array, task, codec, fill) ==
    IF d.ok
      THEN ChunkResult(task.chunk_coords,
                       Put(d.val, task.chunk_selection, Take(shard_array, task.out_selection)),
                       codec, fill)
      ELSE [ok |-> FALSE, chunk_coords |-> task.chunk_coords, chunk_bytes |-> None]

\* encode_partial._write_chunk: [ok, chunk_coords, chunk_bytes].
PartialWriteChunk(old_shard_dict, shard_array, task, codec, fill) ==
    IF is_total_slice(task.chunk_selection, codec.chunk_shape)
      THEN ChunkResult(task.chunk_coords, Take(shard_array, task.out_selection), codec, fill)
    ELSE IF old_shard_dict[task.chunk_coords] = None
      THEN PartialMerged([ok |-> TRUE, val |-> Full(codec.chunk_shape, fill)],
                         shard_array, task, codec, fill)
    ELSE PartialMerged(InnerDecode(old_shard_dict[task.chunk_coords][1], codec.chunk_shape),
                       shard_array, task, codec, fill)

\* The completions of encode_partial's tasks, in the order given.
PartialCompletions(old_shard_dict, shard_array, indexer, codec, fill, order) ==
    [i \in 1..Len(indexer) |->
        [pos |-> order[i],
         res |-> PartialWriteChunk(old_shard_dict, shard_array, indexer[order[i]],
                                   codec, fill)]]

\* The coordinates whose task returned None.
Tombstones(encoded_chunks) ==
    {encoded_chunks[k].chunk_coords :
        k \in {j \in 1..Len(encoded_chunks) : encoded_chunks[j].chunk_bytes = None}}

\* A variant of the closing request that never deletes: it sets the key to
\* the finalized bytes whatever the builder holds.
PartialStoreOpAlwaysSet(shard_builder, codec) ==
    [op |-> "set",
     value |-> finalize(shard_builder, codec.index_location, _get_chunks_per_shard(codec))]

\* The request encode_partial ends with, from the merged builder.
PartialStoreOp(shard_builder, codec) ==
    IF is_all_empty(shard_builder.index)
      THEN DeleteRequest
      ELSE SetRequest(finalize(shard_builder, codec.index_location,
                               _get_chunks_per_shard(codec)))

\* A variant of the end of encode_partial that clears the key before it
\* finalizes the new bytes.
PartialFinishDeleteFirst(shard_builder, codec, fault) ==
    IF fault = "finalize" /\ ~is_all_empty(shard_builder.index)
      THEN [ok |-> FALSE, log |-> <<GetRequest, DeleteRequest>>,
            built |-> shard_builder.index]
      ELSE [ok |-> TRUE,
            log |-> <<GetRequest, DeleteRequest, PartialStoreOp(shard_builder, codec)>>,
            built |-> shard_builder.index]

\* encode_partial from the merged builder on: a fault in finalize raises
\* before the set is issued.
PartialFinish(shard_builder, codec, fault) ==
    IF fault = "finalize" /\ ~is_all_empty(shard_builder.index)
      THEN [ok |-> FALSE, log |-> <<GetRequest>>, built |-> shard_builder.index]
      ELSE [ok |-> TRUE, log |-> <<GetRequest, PartialStoreOp(shard_builder, codec)>>,
            built |-> shard_builder.index]

\* encode_partial from the gathered task results on.
PartialGathered(old_shard_dict, encoded_chunks, codec, fault) ==
    IF fault = "task" \/ \E k \in 1..Len(encoded_chunks) : ~encoded_chunks[k].ok
      THEN [ok |-> FALSE, log |-> <<GetRequest>>,
            built |-> IndexCreateEmpty(_get_chunks_per_shard(codec))]
      ELSE PartialFinish(
             merge_with_morton_order(
                 _get_chunks_per_shard(codec),
                 Tombstones(encoded_chunks),
                 ProxyDict(AppendAll(BuilderCreateEmpty(_get_chunks_per_shard(codec)),
                                     encoded_chunks, 1, _get_chunks_per_shard(codec)),
                           _get_chunks_per_shard(codec)),
                 old_shard_dict),
             codec, fault)

\* encode_partial from the old shard's mapping on.
PartialFrom(old_shard_dict, shard_array, selection, codec, fill, order, fault) ==
    PartialGathered(old_shard_dict,
                    Gather(PartialCompletions(old_shard_dict, shard_array,
                                              BasicIndexer(selection, codec.chunk_shape),
                                              codec, fill, order)),
                    codec, fault)

\* encode_partial once the old shard is loaded (l = [ok, proxy]).
PartialLoaded(l, shard_array, selection, codec, fill, order, fault) ==
    IF fault = "load" \/ ~l.ok
      THEN [ok |-> FALSE, log |-> <<GetRequest>>,
            built |-> IndexCreateEmpty(_get_chunks_per_shard(codec))]
      ELSE PartialFrom(ProxyDict(IF l.proxy = None
                                   THEN ProxyCreateEmpty(_get_chunks_per_shard(codec))
                                   ELSE l.proxy[1],
                                 _get_chunks_per_shard(codec)),
                       shard_array, selection, codec, fill, order, fault)

\* encode_partial: [ok, log, built]: whether it returned, the requests it
\* made of the store in order, and the index of the builder it merged.
\* fault is where the call is made to raise: not at all, in the load, in a
\* task, or in finalize.
encode_partial(st, shard_array, selection, codec, fill, order, fault) ==
    PartialLoaded(_load_full_shard_maybe(st, codec), shard_array, selection,
                  codec, fill, order, fault)

\* ------------------------------------------------------ configuration
\* ShardingCodec.__init__: the parsed arguments become the codec's fields;
\* nothing else is looked at.  index_codecs names the pipeline: "bytes_crc32c"
\* (the default) or "bytes_zstd".
ShardingCodecInit(chunk_shape, index_codecs, index_location) ==
    [ok |-> TRUE,
     codec |-> [chunk_shape |-> chunk_shape, index_codecs |-> index_codecs,
                index_location |-> index_location]]

\* all(s % c == 0 for s, c in zip(array chunk_shape, chunk_shape)): zip
\* stops at the shorter of the two.
ChunksDivide(array_chunk_shape, chunk_shape) ==
    \A k \in 1..Min(Len(array_chunk_shape), Len(chunk_shape)) :
        array_chunk_shape[k] % chunk_shape[k] = 0

\* A variant of validate without the divisibility test.
ValidateShapeOnly(codec, array_metadata) ==
    [ok |-> /\ Len(codec.chunk_shape) = array_metadata.ndim
            /\ array_metadata.regular]

\* validate: ok is FALSE when it raises ValueError.  array_metadata is
\* [ndim, regular, chunk_shape]: regular tells whether chunk_grid is a
\* RegularChunkGrid, chunk_shape is that grid's.
validate(codec, array_metadata) ==
    IF Len(codec.chunk_shape) /= array_metadata.ndim THEN [ok |-> FALSE]
    ELSE IF ~array_metadata.regular THEN [ok |-> FALSE]
    ELSE IF ~ChunksDivide(array_metadata.chunk_shape, codec.chunk_shape)
      THEN [ok |-> FALSE]
    ELSE [ok |-> TRUE]

\* ---------------------------------------------------- CustomSchemeRegistry
\* A scheme is a string, here a sequence of characters that stand for the
\* classes the patterns of register_scheme tell apart: a letter, a digit,
\* one of "+", "." and "-", a newline.
SchemeChars == {"a", "1", "-", "\n"}

IsLetter(ch) == ch = "a"

IsAlnum(ch) == ch \in {"a", "1"}

IsSchemeChar(ch) == ch \in {"a", "1", "-"}

\* Where "$" can match in a string: at its end, and just before a newline
\* that is its last character.
DollarEnds(scheme) ==
    {Len(scheme)} \cup
    (IF Len(scheme) > 0 /\ scheme[Len(scheme)] = "\n" THEN {Len(scheme) - 1} ELSE {})

\* re.match(r"^[a-zA-Z][a-zA-Z0-9+.-]*[a-zA-Z0-9]$", scheme)
MatchesLong(scheme) ==
    \E n \in DollarEnds(scheme) :
        /\ n >= 2
        /\ IsLetter(scheme[1])
        /\ \A i \in 2..(n - 1) : IsSchemeChar(scheme[i])
        /\ IsAlnum(scheme[n])

\* re.match(r"^[a-zA-Z]$", scheme)
MatchesOne(scheme) ==
    \E n \in DollarEnds(scheme) : n = 1 /\ IsLetter(scheme[1])

\* The handler registered for a scheme, as a set of none or one.
HandlersOf(handlers, scheme) ==
    {e.handler_cls : e \in {x \in handlers : x.scheme = scheme}}

\* self._handlers[scheme] = handler_cls
SetHandler(handlers, scheme, handler_cls) ==
    {e \in handlers : e.scheme /= scheme}
        \cup {[scheme |-> scheme, handler_cls |-> handler_cls]}

\* register_scheme: whether it raised ValueError, and the registry after.
register_scheme(handlers, scheme, handler_cls) ==
    IF Len(scheme) = 0 THEN [raised |-> TRUE, handlers |-> handlers]
    ELSE IF \/ ~MatchesLong(scheme) /\ Len(scheme) > 1
            \/ Len(scheme) = 1 /\ ~MatchesOne(scheme)
      THEN [raised |-> TRUE, handlers |-> handlers]
    ELSE IF HandlersOf(handlers, scheme) \notin {{}, {handler_cls}}
      THEN [raised |-> TRUE, handlers |-> handlers]
    ELSE [raised |-> FALSE, handlers |-> SetHandler(handlers, scheme, handler_cls)]

\* ------------------------------------------------------------ the system
\* One shard key of a store, under one codec configuration.
\*   codec       the ShardingCodec's index_location and chunk_shape
\*   fill_value  shard_spec.fill_value
\*   store       the object under the shard's key: None or Some(bytes)
\*   ref         the shard's logical contents: what the completed writes
\*               put there, fill_value elsewhere
\*   writes      the number of calls so far that wrote the key
\*   call        the call that has just ended, with its arguments and what
\*               it returned, until its caller moves on
\*   _handlers   the entries of a CustomSchemeRegistry, [scheme, handler_cls]
\*               each; no codec operation touches it
VARIABLES codec, fill_value, store, ref, writes, call, _handlers

vars == <<codec, fill_value, store, ref, writes, call, _handlers>>

NoCall == [name |-> "none"]

Codecs == [index_location : IndexLocations, chunk_shape : ChunkShapes]

Init ==
    /\ codec \in Codecs
    /\ fill_value = 0
    /\ store = None
    /\ ref = Full(ShardShape, fill_value)
    /\ writes = 0
    /\ _handlers = {}
    /\ call = NoCall

\* The number of tasks a selection gives concurrent_map.
NumTasks(selection) == Len(BasicIndexer(selection, codec.chunk_shape))

Faults == {"none", "load", "task", "finalize"}

EncodeDone(shard_array, encoded_chunks) ==
    /\ store' = EncodeReturn(encoded_chunks, codec)
    /\ ref' = shard_array
    /\ call' = [name |-> "encode", shard_array |-> shard_array,
                built |-> EncodeBuilder(encoded_chunks, codec).index]

\* The array layer encodes a whole shard into a key that holds nothing and
\* sets the key to the result.
Encode ==
    /\ call = NoCall
    /\ store = None
    /\ writes < MaxWrites
    /\ writes' = writes + 1
    /\ \E shard_array \in Arrays(ShardShape, Vals) :
         \E order \in Orders(NumTasks(FullSelection(ShardShape))) :
           EncodeDone(shard_array, EncodeChunks(shard_array, codec, fill_value, order))
    /\ UNCHANGED <<_handlers, codec, fill_value>>

DecodeDone(r) ==
    call' = [name |-> "decode", ok |-> r.ok, out |-> r.out]

\* The array layer gets the whole object and decodes it.
Decode ==
    /\ call = NoCall
    /\ store /= None
    /\ \E order \in Orders(NumTasks(FullSelection(ShardShape))) :
         DecodeDone(decode(store[1], codec, fill_value, order))
    /\ UNCHANGED <<_handlers, codec, fill_value, store, ref, writes>>

DecodePartialDone(selection, r) ==
    call' = [name |-> "decode_partial", selection |-> selection,
             kind |-> r.kind, out |-> r.out, gets |-> r.gets]

DecodePartial ==
    /\ call = NoCall
    /\ \E selection \in Selections(ShardShape) :
         \E order \in Orders(NumTasks(selection)) :
           DecodePartialDone(selection,
                             decode_partial(store, selection, codec, fill_value, order))
    /\ UNCHANGED <<_handlers, codec, fill_value, store, ref, writes>>

\* The store after the same encode_partial is made once more.
EncodePartialAgain(st, r) == ApplyLog(st, r.log, 1)

\* The record of a call that returned, and of one that raised.
EncodePartialReturned(shard_array, selection, r, before, again) ==
    [name |-> "encode_partial", ok |-> TRUE, fault |-> "none",
     selection |-> selection, shard_array |-> shard_array,
     log |-> r.log, built |-> r.built, before |-> before, again |-> again]

EncodePartialRaised(fault, r, before) ==
    [name |-> "encode_partial", ok |-> FALSE, fault |-> fault,
     log |-> r.log, before |-> before]

EncodePartialDone(shard_array, selection, order, fault, r) ==
    /\ store' = ApplyLog(store, r.log, 1)
    /\ ref' = IF r.ok THEN Put(ref, selection, shard_array) ELSE ref
    /\ call' = IF r.ok
                 THEN EncodePartialReturned(
                        shard_array, selection, r, store,
                        EncodePartialAgain(
                            store',
                            encode_partial(store', shard_array, selection, codec,
                                           fill_value, order, fault)))
                 ELSE EncodePartialRaised(fault, r, store)

\* A call that is made to raise drops what its tasks returned, so the
\* order they completed in is not told apart: they complete in list order.
ListOrder(n) == [i \in 1..n |-> i]

EncodePartial ==
    /\ call = NoCall
    /\ writes < MaxWrites
    /\ writes' = writes + 1
    /\ \E selection \in Selections(ShardShape) :
         \E shard_array \in Blocks(SelShape(selection), Vals) :
           \E fault \in Faults :
             \E order \in IF fault = "none" THEN Orders(NumTasks(selection))
                                            ELSE {ListOrder(NumTasks(selection))} :
               EncodePartialDone(shard_array, selection, order, fault,
                                 encode_partial(store, shard_array, selection, codec,
                                                fill_value, order, fault))
    /\ UNCHANGED <<_handlers, codec, fill_value>>

\* The caller moves on.
Return ==
    /\ call /= NoCall
    /\ call' = NoCall
    /\ UNCHANGED <<_handlers, codec, fill_value, store, ref, writes>>

Next == Encode \/ Decode \/ DecodePartial \/ EncodePartial \/ Return

Spec == Init /\ [][Next]_vars

\* The histories in which the key is only ever written by encode_partial.
NextWrite == EncodePartial \/ Return

SpecWrite == Init /\ [][NextWrite]_vars

\* ------------------------------------------------- shards written elsewhere
\* A second system: the key holds a shard some other writer put there, its
\* checksum right and its index arbitrary, entries that share bytes or end
\* past the payload included; the codec only reads it.
CorruptPayload(n) == [k \in 1..n |-> k % (MaxVal + 1)]

\* Where offsets start counting payload bytes.
PayloadBase ==
    IF codec.index_location = "start"
      THEN _shard_index_size(_get_chunks_per_shard(codec))
      ELSE 0

\* The entries a foreign index is made of: empty, or one chunk's length of
\* bytes at the payload's first, second or third byte.
CorruptEntries ==
    {EmptyEntry} \cup
    {<<ToU64(PayloadBase + o), ToU64(product(codec.chunk_shape))>> : o \in 0..2}

\* The shard with that index: a payload one byte longer than a chunk.
CorruptShard(index) ==
    IF codec.index_location = "start"
      THEN _encode_shard_index(index, _get_chunks_per_shard(codec))
           \o CorruptPayload(product(codec.chunk_shape) + 1)
      ELSE CorruptPayload(product(codec.chunk_shape) + 1)
           \o _encode_shard_index(index, _get_chunks_per_shard(codec))

InitCorrupt ==
    /\ codec \in Codecs
    /\ fill_value = 0
    /\ \E index \in [Coords(_get_chunks_per_shard(codec)) -> CorruptEntries] :
         store = Some(CorruptShard(index))
    /\ ref = Full(ShardShape, fill_value)
    /\ writes = 0
    /\ _handlers = {}
    /\ call = NoCall

NextCorrupt == Decode \/ DecodePartial \/ Return

SpecCorrupt == InitCorrupt /\ [][NextCorrupt]_vars

\* ------------------------------------------------------------- properties
\* The index parsed from the stored object, as from_bytes parses it.
StoredIndex ==
    ProxyFromBytes(store[1], codec.index_location, _get_chunks_per_shard(codec)).proxy.index

\* The key holds what encode returns for the shard's logical contents.
StoreIsEncodeOfRef ==
    \E order \in Orders(NumTasks(FullSelection(ShardShape))) :
        store = encode(ref, codec, fill_value, order)

\* a < b for uint64s.
LessU64(a, b) ==
    \/ a[4] < b[4]
    \/ a[4] = b[4] /\ a[3] < b[3]
    \/ a[4] = b[4] /\ a[3] = b[3] /\ a[2] < b[2]
    \/ a[4] = b[4] /\ a[3] = b[3] /\ a[2] = b[2] /\ a[1] < b[1]

\* The place of a coordinate in the Morton order of the grid.
MortonRank(c, chunks_per_shard) ==
    CHOOSE z \in 0..(product(chunks_per_shard) - 1) : decode_morton(z, chunks_per_shard) = c

\* The requests of a log that change the store.
Mutations(log) == {k \in 1..Len(log) : log[k].op \in {"set", "delete"}}

\* C1: full-shard round trip: for every configuration and every array A of
\* the shard shape, decode(encode(A)) returns A.
C1_FullShardRoundTrip ==
    (call.name = "decode" /\ StoreIsEncodeOfRef) => (call.ok /\ call.out = ref)

\* C2: partial-read round trip: decode_partial of a selection S on a store
\* that holds encode(A) returns A[S].
C2_PartialReadRoundTrip ==
    (call.name = "decode_partial" /\ StoreIsEncodeOfRef)
        => (call.kind = "array" /\ call.out = Take(ref, call.selection))

\* C3: finalize with the index at the start adds the index size to the
\* offsets of the non-empty entries only: an entry the builder left empty is
\* the sentinel pair in the emitted index, and every other emitted offset is
\* at least the index size.
C3_FinalizeStartOffsets ==
    (call.name = "encode" /\ codec.index_location = "start")
        => \A c \in Coords(_get_chunks_per_shard(codec)) :
             IF call.built[c] = EmptyEntry
               THEN StoredIndex[c] = EmptyEntry
               ELSE ~LessU64(StoredIndex[c][1],
                             ToU64(_shard_index_size(_get_chunks_per_shard(codec))))

\* C4: partial-write idempotence: the same encode_partial made a second time
\* right after the first leaves the object as the first left it.
C4_PartialWriteIdempotent ==
    (call.name = "encode_partial" /\ call.ok) => call.again = store

\* C5: Morton layout: after an encode_partial that leaves an object, the
\* non-empty entries of its index, sorted by offset, visit their coordinates
\* in Morton order, whatever the order the tasks completed in.
C5_MortonLayout ==
    (call.name = "encode_partial" /\ call.ok /\ store /= None)
        => \A c1, c2 \in Coords(_get_chunks_per_shard(codec)) :
             (/\ StoredIndex[c1] /= EmptyEntry
              /\ StoredIndex[c2] /= EmptyEntry
              /\ MortonRank(c1, _get_chunks_per_shard(codec))
                   < MortonRank(c2, _get_chunks_per_shard(codec)))
                => LessU64(StoredIndex[c1][1], StoredIndex[c2][1])

\* C6: encode_partial makes at most one request that changes the store, a
\* set or a delete, and makes it last, after the load, the tasks and
\* finalize; a call that raises before then leaves the object as it was.
C6_SingleLateMutation ==
    call.name = "encode_partial"
        => /\ Cardinality(Mutations(call.log)) <= 1
           /\ Mutations(call.log) \subseteq {Len(call.log)}
           /\ ~call.ok => (Mutations(call.log) = {} /\ store = call.before)

\* C6 is seen at work: a call that raised over an object that was there.
C6_Witness ==
    /\ call.name = "encode_partial"
    /\ ~call.ok
    /\ call.fault = "finalize"
    /\ call.before /= None
    /\ store = call.before

\* C7: after encode_partial the key is absent or holds a shard with a
\* non-empty index entry: when the merged builder is all-empty the call
\* deletes the object instead of writing an all-sentinel shard.
C7_NoAllEmptyShard ==
    (call.name = "encode_partial" /\ call.ok)
        => /\ store = None \/ ~is_all_empty(StoredIndex)
           /\ is_all_empty(call.built)
                => (call.log[Len(call.log)].op = "delete" /\ store = None)

\* C7 is seen at work: a write that emptied a shard and deleted its object.
C7_Witness ==
    /\ call.name = "encode_partial"
    /\ call.ok
    /\ call.before /= None
    /\ is_all_empty(call.built)
    /\ store = None

\* C8: encode returns None when every sub-chunk of the array equals
\* fill_value.
C8_EncodeAllFillIsNone ==
    (call.name = "encode" /\ array_equiv(call.shard_array, fill_value)) => store = None

\* C9: empty-shard equivalence: for the array F of fill_value, encode(F) is
\* None or bytes whose parsed index is all-empty, and decode(encode(F)) is F.
C9_EmptyShardEquivalence ==
    /\ (call.name = "encode" /\ array_equiv(call.shard_array, fill_value))
         => (store = None \/ is_all_empty(StoredIndex))
    /\ (call.name = "decode" /\ array_equiv(ref, fill_value) /\ StoreIsEncodeOfRef)
         => (call.ok /\ call.out = ref)

\* Two entries share bytes; an entry ends past the payload.
Overlap(e1, e2) ==
    /\ e1 /= EmptyEntry
    /\ e2 /= EmptyEntry
    /\ EntrySlice(e1)[1] < EntrySlice(e2)[2]
    /\ EntrySlice(e2)[1] < EntrySlice(e1)[2]

PastPayload(e) ==
    /\ e /= EmptyEntry
    /\ EntrySlice(e)[2] >
         (IF codec.index_location = "start"
            THEN Len(store[1])
            ELSE Len(store[1]) - _shard_index_size(_get_chunks_per_shard(codec)))

IndexIsCorrupt ==
    \/ \E c1, c2 \in Coords(_get_chunks_per_shard(codec)) :
         c1 /= c2 /\ Overlap(StoredIndex[c1], StoredIndex[c2])
    \/ \E c \in Coords(_get_chunks_per_shard(codec)) : PastPayload(StoredIndex[c])

\* C10: corrupt-shard rejection: when the parsed index has two non-empty
\* entries whose byte ranges overlap, or an entry that reaches past the
\* payload, decode and decode_partial raise and return no array.
C10_CorruptShardRejected ==
    /\ (call.name = "decode" /\ IndexIsCorrupt) => ~call.ok
    /\ (call.name = "decode_partial" /\ IndexIsCorrupt) => call.kind = "error"

\* ------------------------------------------------ the key absent or empty
\* A third system: the key is absent, or holds an object zero bytes long;
\* the codec only reads it.
InitEmptyObject ==
    /\ codec \in Codecs
    /\ fill_value = 0
    /\ store \in {None, Some(<<>>)}
    /\ ref = Full(ShardShape, fill_value)
    /\ writes = 0
    /\ _handlers = {}
    /\ call = NoCall

NextRead == Decode \/ DecodePartial \/ Return

SpecEmptyObject == InitEmptyObject /\ [][NextRead]_vars

\* What decode_partial returns over an absent key, for the same selection.
OverAbsentKey(selection) ==
    decode_partial(None, selection, codec, fill_value,
                   ListOrder(NumTasks(selection)))

\* A return of decode_partial reads as fill_value: None, or an array whose
\* every element is fill_value.
ReadsAsFill(kind, out) ==
    \/ kind = "none"
    \/ kind = "array" /\ array_equiv(out, fill_value)

\* C11: sentinel parse equivalence: over an object zero bytes long
\* decode_partial gives, for every selection and both index locations, what
\* it gives over an absent key, and that outcome reads as fill_value.
C11_ZeroByteObjectReadsAsAbsent ==
    (call.name = "decode_partial" /\ store = Some(<<>>))
        => /\ call.kind = OverAbsentKey(call.selection).kind
           /\ call.out = OverAbsentKey(call.selection).out
           /\ ReadsAsFill(call.kind, call.out)

\* C13: decode_partial never fails because the object is missing: over an
\* absent key it returns None without raising, on the full-shard path and
\* on the index-only path alike.
C13_AbsentKeyReturnsNone ==
    (call.name = "decode_partial" /\ store = None) => call.kind = "none"

\* C13 is seen at work: over an absent key a selection of some sub-chunks
\* asked for the index only and returned None.
C13_Witness ==
    /\ call.name = "decode_partial"
    /\ store = None
    /\ call.kind = "none"
    /\ call.gets = {IndexRange(codec)}

\* An array with no sub-chunk equal to fill_value: every sub-chunk is
\* stored, and with one byte to the element they all encode to the same
\* number of bytes.
EveryChunkStored(shard_array) ==
    \A c \in Coords(ShardShape) : shard_array[c] /= fill_value

\* C12: dense-shard packing: when every sub-chunk is non-empty and encodes
\* to the same length L, is_dense(L) returns True on the index of the
\* shard encode produced.
C12_DenseShardPacking ==
    (call.name = "encode" /\ EveryChunkStored(call.shard_array))
        => /\ is_dense(StoredIndex, _get_chunks_per_shard(codec),
                       product(codec.chunk_shape)).ok
           /\ is_dense(StoredIndex, _get_chunks_per_shard(codec),
                       product(codec.chunk_shape)).val

\* The region of the shard a sub-chunk covers.
ChunkRegion(chunk_coords) ==
    <<<<chunk_coords[1] * codec.chunk_shape[1],
        (chunk_coords[1] + 1) * codec.chunk_shape[1]>>,
      <<chunk_coords[2] * codec.chunk_shape[2],
        (chunk_coords[2] + 1) * codec.chunk_shape[2]>>>>

\* The shard a write into a fresh all-empty shard makes: fill_value but
\* for the selection.
FreshMerged == Put(Full(ShardShape, fill_value), call.selection, call.shard_array)

\* C14: encode_partial on an absent key is a write into a fresh all-empty
\* shard: no error is raised, and the index of the object it leaves has a
\* non-empty entry exactly at the sub-chunks whose merged content differs
\* from fill_value, the sentinel at every other.
C14_PartialWriteOnAbsentKey ==
    (call.name = "encode_partial" /\ call.before = None /\ call.fault = "none")
        => /\ call.ok
           /\ store /= None
                => \A c \in Coords(_get_chunks_per_shard(codec)) :
                     IF array_equiv(Take(FreshMerged, ChunkRegion(c)), fill_value)
                       THEN StoredIndex[c] = EmptyEntry
                       ELSE StoredIndex[c] /= EmptyEntry

\* The place of a coordinate in the row-major order of the grid.
RowMajorRank(c, chunks_per_shard) == c[1] * chunks_per_shard[2] + c[2]

\* The stored index lists its non-empty entries, by offset, in row-major
\* order of their coordinates.
RowMajorByOffset ==
    \A c1, c2 \in Coords(_get_chunks_per_shard(codec)) :
        (/\ StoredIndex[c1] /= EmptyEntry
         /\ StoredIndex[c2] /= EmptyEntry
         /\ RowMajorRank(c1, _get_chunks_per_shard(codec))
              < RowMajorRank(c2, _get_chunks_per_shard(codec)))
           => LessU64(StoredIndex[c1][1], StoredIndex[c2][1])

\* encode returns the same for every order its tasks may complete in.
SameForEveryOrder ==
    \A order \in Orders(NumTasks(FullSelection(ShardShape))) :
        store = encode(call.shard_array, codec, fill_value, order)

\* C15: encode lays the payload out in row-major order of the sub-chunk
\* coordinates: the non-empty entries of the index, sorted by offset, are
\* in row-major coordinate order, and the bytes returned are the same for
\* every order in which the per-sub-chunk tasks complete.
C15_RowMajorLayoutAnyOrder ==
    (call.name = "encode" /\ store /= None)
        => (RowMajorByOffset /\ SameForEveryOrder)

\* ------------------------------------------------ the tasks of one call
\* A fourth system: one call's concurrent_map, task by task.  The call
\* hands the executor one item per element of its indexer and the limit
\* config.get("async.concurrency"); a task takes a slot of the executor
\* when it starts and gives it back when it finishes, and the map returns
\* when every task has finished.
Limits == 1..MaxLimit

\* The calls that fan out, and the selections they fan out over: decode
\* and encode take the whole shard.
MapCallers == {"decode", "decode_partial", "encode", "encode_partial"}

MapSelections(caller) ==
    IF caller \in {"decode", "encode"}
      THEN {FullSelection(ShardShape)}
      ELSE Selections(ShardShape)

\* A variant of the executor that starts every task at once.
MayStartUnbounded(running, limit) == TRUE

\* The executor has a free slot.
MayStart(running, limit) == Cardinality(running) < limit

MapStart ==
    /\ call = NoCall
    /\ \E caller \in MapCallers :
         \E selection \in MapSelections(caller) :
           \E limit \in Limits :
             call' = [name |-> "concurrent_map", caller |-> caller,
                      items |-> NumTasks(selection), limit |-> limit,
                      running |-> {}, finished |-> {}]
    /\ UNCHANGED <<_handlers, codec, fill_value, store, ref, writes>>

TaskStart ==
    /\ call.name = "concurrent_map"
    /\ MayStart(call.running, call.limit)
    /\ \E i \in (1..call.items) \ (call.running \cup call.finished) :
         call' = [call EXCEPT !.running = @ \cup {i}]
    /\ UNCHANGED <<_handlers, codec, fill_value, store, ref, writes>>

TaskFinish ==
    /\ call.name = "concurrent_map"
    /\ \E i \in call.running :
         call' = [call EXCEPT !.running = @ \ {i}, !.finished = @ \cup {i}]
    /\ UNCHANGED <<_handlers, codec, fill_value, store, ref, writes>>

MapReturn ==
    /\ call.name = "concurrent_map"
    /\ call.finished = 1..call.items
    /\ call' = NoCall
    /\ UNCHANGED <<_handlers, codec, fill_value, store, ref, writes>>

NextTasks == MapStart \/ TaskStart \/ TaskFinish \/ MapReturn

SpecTasks == Init /\ [][NextTasks]_vars

\* C16: within one decode, decode_partial, encode or encode_partial call
\* the number of per-sub-chunk tasks in flight never exceeds the
\* async.concurrency limit.
C16_TasksWithinLimit ==
    call.name = "concurrent_map" => Cardinality(call.running) <= call.limit

\* C16 is seen at work: every slot is taken and a task is waiting for one.
C16_Witness ==
    /\ call.name = "concurrent_map"
    /\ Cardinality(call.running) = call.limit
    /\ (1..call.items) \ (call.running \cup call.finished) /= {}

\* The regions the tasks of a selection write: every element of the output
\* lies in the out_selection of exactly one task.
RegionsPartition(selection) ==
    \A c \in Coords(SelShape(selection)) :
        Cardinality({k \in 1..NumTasks(selection) :
                        InSel(c, BasicIndexer(selection, codec.chunk_shape)[k].out_selection)})
          = 1

\* A decode in another order ends as the call did.
SameDecode(r) == r.ok = call.ok /\ (call.ok => r.out = call.out)

SameDecodePartial(r) ==
    r.kind = call.kind /\ (call.kind = "array" => r.out = call.out)

\* C17: in decode and decode_partial the per-sub-chunk tasks write regions
\* of the output that are pairwise disjoint and together cover it, and the
\* array returned is the same under every interleaving of the tasks.
C17_DisjointRegionsAnyOrder ==
    /\ call.name = "decode"
         => /\ RegionsPartition(FullSelection(ShardShape))
            /\ \A order \in Orders(NumTasks(FullSelection(ShardShape))) :
                 SameDecode(decode(store[1], codec, fill_value, order))
    /\ call.name = "decode_partial"
         => /\ RegionsPartition(call.selection)
            /\ \A order \in Orders(NumTasks(call.selection)) :
                 SameDecodePartial(decode_partial(store, call.selection, codec,
                                                  fill_value, order))

\* C17 is seen at work: a decode_partial of several tasks, one of them for
\* a chunk the index does not map, returned an array that is not fill_value
\* throughout.
C17_Witness ==
    /\ call.name = "decode_partial"
    /\ call.kind = "array"
    /\ NumTasks(call.selection) > 1
    /\ \E c \in Coords(_get_chunks_per_shard(codec)) : StoredIndex[c] = EmptyEntry
    /\ ~array_equiv(call.out, fill_value)

\* ------------------------------------------------- codecs being validated
\* A fifth system: a codec as __init__ made it, handed arrays to validate.
Shapes == UNION {[1..n -> 1..MaxExtent] : n \in 1..MaxNdim}

IndexCodecs == {"bytes_crc32c", "bytes_zstd"}

ArrayMetadatas ==
    {[ndim |-> Len(chunk_shape), regular |-> regular, chunk_shape |-> chunk_shape] :
        chunk_shape \in Shapes, regular \in BOOLEAN}

InitConfig ==
    /\ \E chunk_shape \in Shapes :
         \E index_codecs \in IndexCodecs :
           \E index_location \in IndexLocations :
             /\ ShardingCodecInit(chunk_shape, index_codecs, index_location).ok
             /\ codec = ShardingCodecInit(chunk_shape, index_codecs, index_location).codec
    /\ fill_value = 0
    /\ store = None
    /\ ref = Full(ShardShape, fill_value)
    /\ writes = 0
    /\ _handlers = {}
    /\ call = NoCall

Validate ==
    /\ call = NoCall
    /\ \E array_metadata \in ArrayMetadatas :
         call' = [name |-> "validate", array_metadata |-> array_metadata,
                  raised |-> ~validate(codec, array_metadata).ok]
    /\ UNCHANGED <<_handlers, codec, fill_value, store, ref, writes>>

NextConfig == Validate \/ Return

SpecConfig == InitConfig /\ [][NextConfig]_vars

\* s = q * c for a q of 1 or more.
PositiveMultiple(s, c) == \E q \in 1..s : s = q * c

FixedSizePipeline(index_codecs) == index_codecs = "bytes_crc32c"

\* C19: a configuration whose index codec pipeline is not fixed-size on
\* fixed-size input is rejected at configuration or validation time, before
\* any shard is encoded: validate raises for it.
C19_VariableSizeIndexRejected ==
    (call.name = "validate" /\ ~FixedSizePipeline(codec.index_codecs))
        => call.raised

\* An entry of the stored index lies inside the payload of the stored
\* object: after the index when the index is at the start, before it when
\* it is at the end.
InsidePayload(e) ==
    IF codec.index_location = "start"
      THEN /\ ToInt(e[1]) >= _shard_index_size(_get_chunks_per_shard(codec))
           /\ ToInt(e[1]) + ToInt(e[2]) <= Len(store[1])
      ELSE ToInt(e[1]) + ToInt(e[2])
             <= Len(store[1]) - _shard_index_size(_get_chunks_per_shard(codec))

\* C20: in every shard produced by encode or encode_partial, each non-empty
\* entry of the index as stored lies inside the payload, and the offsets of
\* the non-empty entries are pairwise distinct.
C20_StoredIndexWellFormed ==
    (/\ call.name \in {"encode", "encode_partial"}
     /\ call.name = "encode_partial" => call.ok
     /\ store /= None)
        => /\ \A c \in Coords(_get_chunks_per_shard(codec)) :
                StoredIndex[c] /= EmptyEntry => InsidePayload(StoredIndex[c])
           /\ \A c1, c2 \in Coords(_get_chunks_per_shard(codec)) :
                (/\ c1 /= c2
                 /\ StoredIndex[c1] /= EmptyEntry
                 /\ StoredIndex[c2] /= EmptyEntry)
                   => StoredIndex[c1][1] /= StoredIndex[c2][1]

\* A call that wrote the key has just returned.
WriteReturned ==
    \/ call.name = "encode"
    \/ call.name = "encode_partial" /\ call.ok

\* C21: the stored layout is independent of the write history: whatever
\* the history of encode and encode_partial calls on the key, the object it
\* leaves is the one the history of a single encode of the same logical
\* contents leaves, byte for byte.
C21_LayoutIndependentOfHistory ==
    WriteReturned
        => \E order \in Orders(NumTasks(FullSelection(ShardShape))) :
             store = encode(ref, codec, fill_value, order)

\* The lengths of the non-empty entries of an index, added up over the
\* coordinates cs[k..].
RECURSIVE SumLengths(_, _, _)
SumLengths(index, cs, k) ==
    IF k > Len(cs) THEN 0
    ELSE (IF index[cs[k]] = EmptyEntry THEN 0 ELSE ToInt(index[cs[k]][2]))
         + SumLengths(index, cs, k + 1)

\* The number of payload bytes of the stored object.
PayloadLength == Len(store[1]) - _shard_index_size(_get_chunks_per_shard(codec))

\* C22: no stale payload bytes: after a sequence of encode_partial calls
\* that leaves an object, the payload is exactly the byte ranges of the
\* non-empty entries of its index: they lie inside it, no two of them
\* overlap, and their lengths add up to its length.
C22_NoStalePayload ==
    (call.name = "encode_partial" /\ call.ok /\ store /= None)
        => /\ \A c \in Coords(_get_chunks_per_shard(codec)) :
                StoredIndex[c] /= EmptyEntry => InsidePayload(StoredIndex[c])
           /\ \A c1, c2 \in Coords(_get_chunks_per_shard(codec)) :
                c1 /= c2 => ~Overlap(StoredIndex[c1], StoredIndex[c2])
           /\ SumLengths(StoredIndex, c_order_iter(_get_chunks_per_shard(codec)), 1)
                = PayloadLength

\* ------------------------------------------------- a registry of schemes
\* A sixth system: one CustomSchemeRegistry, empty at first, and the
\* register_scheme calls made of it.
Schemes == UNION {[1..n -> SchemeChars] : n \in 0..MaxSchemeLen}

HandlerClasses == {"TestSchemeHandler", "AnotherHandler"}

InitRegistry ==
    /\ codec = [index_location |-> "end", chunk_shape |-> ShardShape]
    /\ fill_value = 0
    /\ store = None
    /\ ref = Full(ShardShape, fill_value)
    /\ writes = 0
    /\ call = NoCall
    /\ _handlers = {}

RegisterDone(scheme, handler_cls, r) ==
    /\ _handlers' = r.handlers
    /\ call' = [name |-> "register_scheme", scheme |-> scheme,
                handler_cls |-> handler_cls, raised |-> r.raised,
                before |-> _handlers]

RegisterScheme ==
    /\ call = NoCall
    /\ Cardinality(_handlers) <= MaxSchemes
    /\ \E scheme \in Schemes :
         \E handler_cls \in HandlerClasses :
           /\ Cardinality(register_scheme(_handlers, scheme, handler_cls).handlers)
                <= MaxSchemes
           /\ RegisterDone(scheme, handler_cls,
                           register_scheme(_handlers, scheme, handler_cls))
    /\ UNCHANGED <<codec, fill_value, store, ref, writes>>

NextRegistry == RegisterScheme \/ Return

SpecRegistry == InitRegistry /\ [][NextRegistry]_vars

\* A scheme of the form the patterns are written for: a letter first, an
\* alphanumeric last, letters, digits, "+", "." and "-" between.
WellFormedScheme(scheme) ==
    /\ Len(scheme) >= 1
    /\ IsLetter(scheme[1])
    /\ \A i \in 1..Len(scheme) : IsSchemeChar(scheme[i])
    /\ IsAlnum(scheme[Len(scheme)])

\* C23: over any sequence of register_scheme calls a scheme's handler
\* never changes once set: a different handler class for a registered
\* scheme raises ValueError and leaves the registry as it was, the same
\* class again succeeds and changes nothing, and an empty or malformed
\* scheme raises ValueError and adds no entry.
C23_RegistryHandlersStable ==
    call.name = "register_scheme"
        => /\ call.before \subseteq _handlers
           /\ HandlersOf(call.before, call.scheme) \notin {{}, {call.handler_cls}}
                => (call.raised /\ _handlers = call.before)
           /\ HandlersOf(call.before, call.scheme) = {call.handler_cls}
                => (~call.raised /\ _handlers = call.before)
           /\ ~WellFormedScheme(call.scheme)
                => (call.raised /\ _handlers = call.before)

\* The sub-chunks a selection touches, and whether they are all of them.
Touched(selection) == AllChunkCoords(BasicIndexer(selection, codec.chunk_shape))

TouchesAll(selection) == Touched(selection) = Coords(_get_chunks_per_shard(codec))

\* The byte ranges of the touched sub-chunks that the stored index maps.
TouchedRanges(selection) ==
    IF store = None THEN {}
    ELSE {EntrySlice(StoredIndex[c]) :
            c \in {d \in Touched(selection) : StoredIndex[d] /= EmptyEntry}}

\* The gets of a decode_partial that does not touch every sub-chunk.
RangedGetsOnly ==
    (call.name = "decode_partial" /\ ~TouchesAll(call.selection))
        => /\ WholeObject \notin call.gets
           /\ IndexRange(codec) \in call.gets
           /\ call.gets \ {IndexRange(codec)} = TouchedRanges(call.selection)

\* C24: when the selection does not touch every sub-chunk, decode_partial
\* never gets the whole object: it gets the index by range (the head when
\* the index is at the start, the tail otherwise), then gets by range the
\* touched sub-chunks that index maps and nothing else, and it neither
\* sets nor deletes the key.
C24_PartialReadRangedGetsOnly ==
    /\ []RangedGetsOnly
    /\ [][call'.name = "decode_partial" => store' = store]_vars

\* C24 is seen at work: a read of some sub-chunks that made a ranged get
\* for a sub-chunk and left alone one that the index maps as well.
C24_Witness ==
    /\ call.name = "decode_partial"
    /\ ~TouchesAll(call.selection)
    /\ call.kind = "array"
    /\ call.gets /= {IndexRange(codec)}
    /\ \E c \in Coords(_get_chunks_per_shard(codec)) \ Touched(call.selection) :
         StoredIndex[c] /= EmptyEntry

\* The index of the object the call found under the key.
IndexBefore ==
    ProxyFromBytes(call.before[1], codec.index_location,
                   _get_chunks_per_shard(codec)).proxy.index

\* The sub-chunks the call emptied: mapped by the index it found, and
\* fill_value everywhere in the contents it leaves.
Emptied ==
    {c \in Coords(_get_chunks_per_shard(codec)) :
        /\ IndexBefore[c] /= EmptyEntry
        /\ array_equiv(Take(ref, ChunkRegion(c)), fill_value)}

\* The non-empty entries of the stored index are in Morton order by offset.
MortonByOffset ==
    \A c1, c2 \in Coords(_get_chunks_per_shard(codec)) :
        (/\ StoredIndex[c1] /= EmptyEntry
         /\ StoredIndex[c2] /= EmptyEntry
         /\ MortonRank(c1, _get_chunks_per_shard(codec))
              < MortonRank(c2, _get_chunks_per_shard(codec)))
           => LessU64(StoredIndex[c1][1], StoredIndex[c2][1])

\* C25: tombstoning: when an encode_partial makes the merged content of a
\* sub-chunk that was non-empty equal to fill_value everywhere, the entry
\* of that sub-chunk in the rewritten shard is the sentinel, its old bytes
\* are not carried over (the payload holds the surviving entries' bytes and
\* no more), and the surviving entries keep Morton order.
C25_Tombstoning ==
    (/\ call.name = "encode_partial"
     /\ call.ok
     /\ call.before /= None
     /\ store /= None
     /\ Emptied /= {})
        => /\ \A c \in Emptied : StoredIndex[c] = EmptyEntry
           /\ SumLengths(StoredIndex, c_order_iter(_get_chunks_per_shard(codec)), 1)
                = PayloadLength
           /\ MortonByOffset

\* The arguments encode_partial gave merge_with_morton_order in the call
\* that has just returned: the old shard's mapping, the gathered task
\* results, and the mapping of the builder made from them.
OldShardDict ==
    ProxyDict(IF call.before = None
                THEN ProxyCreateEmpty(_get_chunks_per_shard(codec))
                ELSE ProxyFromBytes(call.before[1], codec.index_location,
                                    _get_chunks_per_shard(codec)).proxy,
              _get_chunks_per_shard(codec))

EncodedChunksOf(old) ==
    Gather(PartialCompletions(old, call.shard_array,
                              BasicIndexer(call.selection, codec.chunk_shape),
                              codec, fill_value, ListOrder(NumTasks(call.selection))))

NewShardDict(encoded_chunks) ==
    ProxyDict(AppendAll(BuilderCreateEmpty(_get_chunks_per_shard(codec)),
                        encoded_chunks, 1, _get_chunks_per_shard(codec)),
              _get_chunks_per_shard(codec))

\* What the merge is to hold for a coordinate: nothing for a tombstone,
\* else the new value if there is one, else the old one if there is one.
MergeExpected(c, tombstones, new, old) ==
    IF c \in tombstones THEN None
    ELSE IF new[c] /= None THEN new[c]
    ELSE old[c]

\* The lengths of the expected values, added up over the coordinates cs[k..].
RECURSIVE SumExpected(_, _, _, _, _)
SumExpected(cs, k, tombstones, new, old) ==
    IF k > Len(cs) THEN 0
    ELSE (IF MergeExpected(cs[k], tombstones, new, old) = None THEN 0
          ELSE Len(MergeExpected(cs[k], tombstones, new, old)[1]))
         + SumExpected(cs, k + 1, tombstones, new, old)

\* The merged builder holds, for every coordinate, the expected value, and
\* its buffer holds those values and no other byte.
MergedAsExpected(merged, tombstones, new, old) ==
    /\ merged.index = call.built
    /\ \A c \in Coords(_get_chunks_per_shard(codec)) :
         ProxyGet(merged, c, _get_chunks_per_shard(codec))
           = MergeExpected(c, tombstones, new, old)
    /\ Len(merged.buf)
         = SumExpected(c_order_iter(_get_chunks_per_shard(codec)), 1,
                       tombstones, new, old)

MergeOfCall(tombstones, new, old) ==
    MergedAsExpected(merge_with_morton_order(_get_chunks_per_shard(codec),
                                             tombstones, new, old),
                     tombstones, new, old)

MergeOfChunks(encoded_chunks, old) ==
    MergeOfCall(Tombstones(encoded_chunks), NewShardDict(encoded_chunks), old)

\* C26: merge_with_morton_order visits every coordinate of the grid once
\* and appends, for a coordinate that is not tombstoned, exactly one value:
\* the newly encoded one if there is one, else the old shard's bytes if
\* there are any; a tombstoned coordinate and one in neither mapping stay
\* empty.
C26_MergeTakesNewThenOld ==
    (call.name = "encode_partial" /\ call.ok)
        => MergeOfChunks(EncodedChunksOf(OldShardDict), OldShardDict)

\* C26 is seen at work: a merge that dropped a tombstoned sub-chunk of the
\* old shard and carried over one the call did not touch.
C26_Witness ==
    /\ call.name = "encode_partial"
    /\ call.ok
    /\ call.before /= None
    /\ \E c \in Touched(call.selection) :
         IndexBefore[c] /= EmptyEntry /\ call.built[c] = EmptyEntry
    /\ \E c \in Coords(_get_chunks_per_shard(codec)) \ Touched(call.selection) :
         call.built[c] /= EmptyEntry

\* What the object under the key decodes to: fill_value throughout for an
\* absent key.
DecodeStored(st) ==
    IF st = None
      THEN [ok |-> TRUE, out |-> Full(ShardShape, fill_value)]
      ELSE decode(st[1], codec, fill_value,
                  ListOrder(NumTasks(FullSelection(ShardShape))))

\* Outside the selection the shard decodes after the call to what it
\* decoded to before it.
FrameKept(before, after) ==
    before.ok
        => /\ after.ok
           /\ \A c \in Coords(ShardShape) :
                ~InSel(c, call.selection) => after.out[c] = before.out[c]

\* C27: encode_partial with selection S changes only the elements in S:
\* every element outside S, in a sub-chunk the call did not touch or in the
\* rest of one it overwrote in part, decodes after the call to the value it
\* decoded to before (fill_value for an absent sub-chunk or an absent key).
C27_PartialWriteFrame ==
    (call.name = "encode_partial" /\ call.ok)
        => FrameKept(DecodeStored(call.before), DecodeStored(store))

\* The histories in which the key is written by encode_partial only, from
\* an absent key on, and read by decode_partial.
NextWriteRead == EncodePartial \/ DecodePartial \/ Return

SpecWriteRead == Init /\ [][NextWriteRead]_vars

\* C28: read-your-writes over sequences: from an absent key, after any
\* sequence of encode_partial calls made one after the other, decode_partial
\* of any selection returns that slice of the reference array (fill_value
\* with the writes applied in order), a None read as fill_value throughout.
C28_ReadYourWrites ==
    call.name = "decode_partial"
        => \/ call.kind = "none"
                /\ array_equiv(Take(ref, call.selection), fill_value)
           \/ call.kind = "array" /\ call.out = Take(ref, call.selection)

\* ------------------------------------------------- two writers of one key
\* A seventh system: two encode_partial calls on the key at once, each a
\* task that is suspended at its get of the object and at its set or
\* delete, with nothing between the two but its own work.  The calls in
\* flight are kept in call: for each its arguments, where it stands
\* ("start", "loaded", "done"), and what its get returned.
Disjoint(s1, s2) == \A c \in Coords(ShardShape) : ~(InSel(c, s1) /\ InSel(c, s2))

Writer(selection, shard_array) ==
    [selection |-> selection, shard_array |-> shard_array,
     pc |-> "start", loaded |-> None]

WritersStart ==
    /\ call = NoCall
    /\ writes + 2 <= MaxWrites
    /\ writes' = writes + 2
    /\ \E s1, s2 \in Selections(ShardShape) :
         /\ Disjoint(s1, s2)
         /\ \E a1 \in Blocks(SelShape(s1), Vals) :
              \E a2 \in Blocks(SelShape(s2), Vals) :
                call' = [name |-> "writers", before |-> store,
                         w |-> <<Writer(s1, a1), Writer(s2, a2)>>]
    /\ UNCHANGED <<_handlers, codec, fill_value, store, ref>>

\* The get of _load_full_shard_maybe returns.
WriterLoad ==
    /\ call.name = "writers"
    /\ \E i \in 1..2 :
         /\ call.w[i].pc = "start"
         /\ call' = [call EXCEPT !.w[i].pc = "loaded", !.w[i].loaded = store]
    /\ UNCHANGED <<_handlers, codec, fill_value, store, ref, writes>>

\* The rest of the call, from the object its get returned: the tasks, the
\* merge, and the set or delete it ends with.
WriterStoreDone(i, r) ==
    /\ store' = ApplyLog(store, r.log, 1)
    /\ ref' = Put(ref, call.w[i].selection, call.w[i].shard_array)
    /\ call' = [call EXCEPT !.w[i].pc = "done"]

WriterStore ==
    /\ call.name = "writers"
    /\ \E i \in 1..2 :
         /\ call.w[i].pc = "loaded"
         /\ WriterStoreDone(i, encode_partial(call.w[i].loaded, call.w[i].shard_array,
                                              call.w[i].selection, codec, fill_value,
                                              ListOrder(NumTasks(call.w[i].selection)),
                                              "none"))
    /\ UNCHANGED <<_handlers, codec, fill_value, writes>>

\* A call returns; calls in flight return when each has got to its end:
\* two writers when both have stored, a read when it has decoded.
ReturnWhenDone ==
    /\ call.name = "writers" => \A i \in 1..2 : call.w[i].pc = "done"
    /\ call.name = "reader" => call.pc = "done"
    /\ Return

NextWriters ==
    EncodePartial \/ WritersStart \/ WriterLoad \/ WriterStore \/ ReturnWhenDone

SpecWriters == Init /\ [][NextWriters]_vars

\* The decoded shard holds what both calls wrote.
BothWritten(d) ==
    /\ d.ok
    /\ \A i \in 1..2 : Take(d.out, call.w[i].selection) = call.w[i].shard_array

\* C29: two encode_partial calls on one key with disjoint selections,
\* interleaved at their gets and sets, both take effect: once both have
\* returned the shard decodes to the array with both selections written.
C29_NoLostUpdate ==
    (call.name = "writers" /\ \A i \in 1..2 : call.w[i].pc = "done")
        => BothWritten(DecodeStored(store))

\* ------------------------------------------- a reader beside one writer
\* An eighth system: one decode_partial of a selection that does not touch
\* every sub-chunk, suspended at its get of the index and at each ranged
\* get, while one encode_partial on the same key may store.  The read in
\* flight is kept in call: where it stands ("start", "indexed", "done"),
\* the index it decoded, the coordinates still to get, its shard_dict, and
\* the key before and after the write.
ReaderStart ==
    /\ call = NoCall
    /\ writes < MaxWrites
    /\ \E selection \in Selections(ShardShape) :
         /\ ~_is_total_shard(AllChunkCoords(BasicIndexer(selection, codec.chunk_shape)),
                             _get_chunks_per_shard(codec))
         /\ call' = [name |-> "reader", selection |-> selection, pc |-> "start",
                     index |-> None, todo |-> {},
                     shard_dict |-> [c \in Coords(_get_chunks_per_shard(codec)) |-> None],
                     kind |-> "none", out |-> <<>>,
                     written |-> FALSE, before |-> store, after |-> store]
    /\ UNCHANGED <<_handlers, codec, fill_value, store, ref, writes>>

\* The get of _load_shard_index_maybe returns: a raise, None, or the index
\* and with it the coordinates that will be fetched.
ReaderIndexed(l) ==
    call' = IF ~l.ok THEN [call EXCEPT !.pc = "done", !.kind = "error"]
            ELSE IF l.index = None THEN [call EXCEPT !.pc = "done", !.kind = "none"]
            ELSE [call EXCEPT !.pc = "indexed", !.index = l.index,
                              !.todo = {c \in AllChunkCoords(
                                                BasicIndexer(call.selection, codec.chunk_shape)) :
                                          l.index[1][c] /= EmptyEntry}]

ReaderIndex ==
    /\ call.name = "reader"
    /\ call.pc = "start"
    /\ ReaderIndexed(_load_shard_index_maybe(store, codec))
    /\ UNCHANGED <<_handlers, codec, fill_value, store, ref, writes>>

\* One ranged get returns, of the key as it is now.
ReaderGet ==
    /\ call.name = "reader"
    /\ call.pc = "indexed"
    /\ \E c \in call.todo :
         call' = [call EXCEPT
                    !.todo = @ \ {c},
                    !.shard_dict[c] =
                        RangedChunk(StoreGetRange(store,
                                                  EntrySlice(call.index[1][c])[1],
                                                  EntrySlice(call.index[1][c])[2]))]
    /\ UNCHANGED <<_handlers, codec, fill_value, store, ref, writes>>

\* The chunks fetched are decoded into the output.
ReaderDecoded(r) ==
    call' = [call EXCEPT !.pc = "done",
                         !.kind = IF r.ok THEN "array" ELSE "error",
                         !.out = r.out]

ReaderDecode ==
    /\ call.name = "reader"
    /\ call.pc = "indexed"
    /\ call.todo = {}
    /\ ReaderDecoded(ReadChunks(Full(SelShape(call.selection), 0), 1,
                                ListOrder(NumTasks(call.selection)),
                                BasicIndexer(call.selection, codec.chunk_shape),
                                call.shard_dict, codec, fill_value))
    /\ UNCHANGED <<_handlers, codec, fill_value, store, ref, writes>>

\* The one encode_partial beside the read stores: its get and its set with
\* no other writer between them.
ReaderWriteDone(shard_array, selection, r) ==
    /\ r.ok
    /\ store' = ApplyLog(store, r.log, 1)
    /\ ref' = Put(ref, selection, shard_array)
    /\ call' = [call EXCEPT !.written = TRUE, !.after = ApplyLog(store, r.log, 1)]

ReaderWrite ==
    /\ call.name = "reader"
    /\ call.pc /= "done"
    /\ ~call.written
    /\ writes' = writes + 1
    /\ \E selection \in Selections(ShardShape) :
         \E shard_array \in Blocks(SelShape(selection), Vals) :
           ReaderWriteDone(shard_array, selection,
                           encode_partial(store, shard_array, selection, codec, fill_value,
                                          ListOrder(NumTasks(selection)), "none"))
    /\ UNCHANGED <<_handlers, codec, fill_value>>

NextReader ==
    \/ EncodePartial
    \/ ReaderStart \/ ReaderIndex \/ ReaderGet \/ ReaderDecode \/ ReaderWrite
    \/ ReturnWhenDone

SpecReader == Init /\ [][NextReader]_vars

\* The read in flight returned what a decode_partial of the key st, with
\* nothing beside it, returns: the same array, None for None or for an
\* array of fill values, a raise for a raise.
ReadsAs(r) ==
    \/ call.kind = "error" /\ r.kind = "error"
    \/ call.kind = "array" /\ r.kind = "array" /\ call.out = r.out
    \/ call.kind = "none" /\ r.kind = "none"
    \/ call.kind = "none" /\ r.kind = "array" /\ array_equiv(r.out, fill_value)
    \/ call.kind = "array" /\ r.kind = "none" /\ array_equiv(call.out, fill_value)

\* C30: a decode_partial of a selection that does not touch every
\* sub-chunk, with one encode_partial on the same key beside it, returns
\* the content from before the write or the content from after it.
C30_ReadBeforeOrAfter ==
    (call.name = "reader" /\ call.pc = "done" /\ call.written)
        => \/ ReadsAs(decode_partial(call.before, call.selection, codec, fill_value,
                                     ListOrder(NumTasks(call.selection))))
           \/ ReadsAs(decode_partial(call.after, call.selection, codec, fill_value,
                                     ListOrder(NumTasks(call.selection))))

====
